---- MODULE Spec2Model ----
(***************************************************************************)
(* Model of the e_library persistence core: the Book record, the mapping   *)
(* between Book and the "books" table row (the two _convert_ methods), the *)
(* repository CRUD operations and the BackendClient facade (save_book).    *)
(*                                                                         *)
(* Text that the code only copies (title, author, ...) is a TLA+ string.   *)
(* Text that the code takes apart (the genres) is a sequence of one-       *)
(* character strings, so that join/split/strip are computed as Python      *)
(* computes them.  An Optional value is a sequence of length 0 (None) or 1.*)
(***************************************************************************)
EXTENDS Integers, Sequences, FiniteSets, TLC

VARIABLES
    books,        \* the rows of table "books" (a set of rows)
    call,         \* the last repository/facade call: name, book_id, book
    ret,          \* what that call returned (or that it raised)
    pre,          \* the rows of the table when that call was made
    deleted,      \* ids for which delete_book has returned True (history)
    session,      \* BackendClient.db: which Session it is and its transaction state
    genres,       \* mapper: the genres list of the record being converted
    genres_str,   \* mapper: BookModel.genres, the stored string
    genres_list,  \* mapper: the genres list of the record read back
    mpc,          \* mapper: position in the round trip
    step,         \* scenario: how many of its calls have been made
    spc,          \* save_book running on the event loop: its position
    saving,       \* save_book running on the event loop: its argument book
    existing,     \* save_book running on the event loop: its existing_book
    form,         \* the BookForm last created: its dialog and book_to_edit
    fields,       \* the values of the BookForm's text fields
    clicked,      \* handle_save_click in progress: its form's book_to_edit, its book
    todo,         \* handle_save_click in progress: the steps it still has to take
    log,          \* the steps the last handle_save_click has taken
    clicks,       \* number of clicks on Save so far
    handler,      \* the UI handler that ran last
    snack_bar,    \* the text of the last SnackBar shown
    confirm_dialog, \* per page session: the book whose delete awaits confirmation
    text,         \* truncate_text: its argument text
    max_length,   \* truncate_text: its argument max_length
    truncated,    \* truncate_text: what it returned
    tpc,          \* truncate_text: called or not yet
    tabs,         \* TabManager.tabs: the Tab list and selected_index
    tab_handlers, \* TabManager.tab_handlers: dict index -> handler
    tab_contents, \* TabManager.tab_contents: dict index -> content
    tab_number_after_authorization, \* TabManager: Optional index
    is_authorized, \* TabManager.is_authorized
    page,         \* page.controls of the TabManager's page
    invoked,      \* the tab handlers the last TabManager call invoked
    tab_call,     \* the last TabManager call: name and index
    tab_ret       \* what that call returned

vars == <<books, call, ret, pre, deleted, session,
          genres, genres_str, genres_list, mpc, step,
          spc, saving, existing,
          form, fields, clicked, todo, log, clicks, handler, snack_bar,
          confirm_dialog,
          text, max_length, truncated, tpc,
          tabs, tab_handlers, tab_contents, tab_number_after_authorization,
          is_authorized, page, invoked, tab_call, tab_ret>>

crudVars == <<books, call, ret, pre, deleted, session>>
mapperVars == <<genres, genres_str, genres_list, mpc>>
scenarioVars == <<step>>
raceVars == <<spc, saving, existing>>
formVars == <<form, fields, clicked, todo, log, clicks>>
uiVars == <<formVars, handler, snack_bar, confirm_dialog>>
textVars == <<text, max_length, truncated, tpc>>
tabVars == <<tabs, tab_handlers, tab_contents, tab_number_after_authorization,
            is_authorized, page, invoked, tab_call, tab_ret>>
tabVars_but_page == <<tabs, tab_handlers, tab_contents,
                     tab_number_after_authorization, is_authorized, invoked,
                     tab_call, tab_ret>>
appVars == <<textVars, tabVars>>

----------------------------------------------------------------------------
(* Bounds *)

MaxIds == 2        \* number of distinct book ids (UUIDs) in play
MaxLen == 2        \* longest genre text, in characters
MaxGenres == 2     \* longest genres list
MaxClicks == 2     \* clicks on Save in one run of the UI
MaxText == 4       \* longest text handed to truncate_text, in characters
MaxLength == 5     \* largest max_length handed to truncate_text
MaxTabs == 3       \* most tabs a TabManager has at a time
MaxControls == 3   \* most controls on the TabManager's page

BookIds == 1..MaxIds

\* the characters genre text is made of: a letter, the delimiter, a blank
Chars == {"a", ",", " "}
Whitespace == {" "}

RECURSIVE StringsOfLen(_)
StringsOfLen(n) ==
    IF n = 0 THEN {<<>>}
    ELSE {Append(s, c) : s \in StringsOfLen(n - 1), c \in Chars}

Strings == UNION {StringsOfLen(n) : n \in 0..MaxLen}

RECURSIVE ListsOfLen(_)
ListsOfLen(n) ==
    IF n = 0 THEN {<<>>}
    ELSE {Append(l, s) : l \in ListsOfLen(n - 1), s \in Strings}

GenreLists == UNION {ListsOfLen(n) : n \in 0..MaxGenres}

----------------------------------------------------------------------------
(* Python str operations used by the mapper *)

\* str.strip(): drop leading and trailing whitespace
RECURSIVE lstrip(_)
lstrip(s) ==
    IF s # <<>> /\ Head(s) \in Whitespace THEN lstrip(Tail(s)) ELSE s

RECURSIVE rstrip(_)
rstrip(s) ==
    IF s # <<>> /\ s[Len(s)] \in Whitespace
    THEN rstrip(SubSeq(s, 1, Len(s) - 1))
    ELSE s

strip(s) == rstrip(lstrip(s))

\* sep.join(parts), sep one character
RECURSIVE join(_, _)
join(sep, parts) ==
    IF parts = <<>> THEN <<>>
    ELSE IF Len(parts) = 1 THEN parts[1]
    ELSE parts[1] \o <<sep>> \o join(sep, Tail(parts))

\* s.split(sep), sep one character: always at least one part
RECURSIVE split(_, _)
split(s, sep) ==
    IF \A i \in 1..Len(s) : s[i] # sep THEN <<s>>
    ELSE LET k == CHOOSE i \in 1..Len(s) :
                      s[i] = sep /\ \A j \in 1..(i - 1) : s[j] # sep
         IN  <<SubSeq(s, 1, k - 1)>> \o split(SubSeq(s, k + 1, Len(s)), sep)

\* [f(x) for x in l if p(x)] for the one comprehension the code has:
\* [genre.strip() for genre in parts if genre.strip()]
RECURSIVE strip_nonblank(_)
strip_nonblank(parts) ==
    IF parts = <<>> THEN <<>>
    ELSE IF strip(Head(parts)) # <<>>
         THEN <<strip(Head(parts))>> \o strip_nonblank(Tail(parts))
         ELSE strip_nonblank(Tail(parts))

----------------------------------------------------------------------------
(* Storage mapper: _convert_model_to_db and _convert_db_to_model *)

\* the encoding that leaves the empty entries out of the join
RECURSIVE nonempty_entries(_)
nonempty_entries(g) ==
    IF g = <<>> THEN <<>>
    ELSE IF Head(g) # <<>> THEN <<Head(g)>> \o nonempty_entries(Tail(g))
    ELSE nonempty_entries(Tail(g))

encode_genres_nonempty_only(g) == join(",", nonempty_entries(g))

\* genres_str = ",".join(book.genres) if book.genres else ""
encode_genres(g) == IF g # <<>> THEN join(",", g) ELSE <<>>

\* genres_list = [] ; if db_book.genres: [g.strip() for g in split(",") if g.strip()]
decode_genres(s) == IF s # <<>> THEN strip_nonblank(split(s, ",")) ELSE <<>>

\* the mapping with one column forgotten: cover_image is never written
_convert_model_to_db_without_cover_image(book) ==
    [id               |-> book.id,
     title            |-> book.title,
     author           |-> book.author,
     year_published   |-> book.year_published,
     year_read        |-> book.year_read,
     cover_image_path |-> book.cover_image_path,
     summary          |-> book.summary,
     rating           |-> book.rating,
     genres           |-> encode_genres(book.genres),
     cover_image      |-> <<>>,
     is_remote_image  |-> book.is_remote_image]

_convert_model_to_db(book) ==
    [id               |-> book.id,
     title            |-> book.title,
     author           |-> book.author,
     year_published   |-> book.year_published,
     year_read        |-> book.year_read,
     cover_image_path |-> book.cover_image_path,
     summary          |-> book.summary,
     rating           |-> book.rating,
     genres           |-> encode_genres(book.genres),
     cover_image      |-> book.cover_image,
     is_remote_image  |-> book.is_remote_image]

_convert_db_to_model(db_book) ==
    [id               |-> db_book.id,
     title            |-> db_book.title,
     author           |-> db_book.author,
     year_published   |-> db_book.year_published,
     year_read        |-> db_book.year_read,
     cover_image_path |-> db_book.cover_image_path,
     summary          |-> db_book.summary,
     rating           |-> db_book.rating,
     genres           |-> decode_genres(db_book.genres),
     cover_image      |-> db_book.cover_image,
     is_remote_image  |-> db_book.is_remote_image]

----------------------------------------------------------------------------
(* Book records handed to the repository *)

None == <<>>
Some(x) == <<x>>

\* the scalar fields of two books: one with every optional field absent,
\* one with every optional field present; no field has the same value in both
ScalarFields ==
    {[title |-> "Dune", author |-> "Herbert", year_published |-> None,
      year_read |-> None, cover_image_path |-> "", summary |-> None,
      rating |-> None, cover_image |-> None, is_remote_image |-> FALSE],
     [title |-> "Emma", author |-> "Austen", year_published |-> Some(1815),
      year_read |-> Some(2020), cover_image_path |-> "covers/emma.png",
      summary |-> Some("A novel"), rating |-> Some(5),
      cover_image |-> Some("http://img/emma"), is_remote_image |-> TRUE]}

\* genres lists of stored books: the empty list, and a list with a plain
\* entry, an untrimmed entry that contains the delimiter, and an empty entry
GenreSamples ==
    {<<>>,
     << <<"a">>, <<" ", "a", ",", "a", "a", " ">>, <<>> >>}

\* Book(id=..., **fields, genres=...)
Book(id, f, g) ==
    [id               |-> id,
     title            |-> f.title,
     author           |-> f.author,
     year_published   |-> f.year_published,
     year_read        |-> f.year_read,
     cover_image_path |-> f.cover_image_path,
     summary          |-> f.summary,
     rating           |-> f.rating,
     genres           |-> g,
     cover_image      |-> f.cover_image,
     is_remote_image  |-> f.is_remote_image]

Books == {Book(id, f, g) : id \in BookIds, f \in ScalarFields, g \in GenreSamples}

----------------------------------------------------------------------------
(* What a call returns *)

RetNone == [kind |-> "none", book |-> None, flag |-> FALSE]
RetBook(b) == [kind |-> "book", book |-> Some(b), flag |-> FALSE]
RetBool(v) == [kind |-> "bool", book |-> None, flag |-> v]
Raised == [kind |-> "raised", book |-> None, flag |-> FALSE]
\* a list of records, for get_all_books
RetList(l) == [kind |-> "list", book |-> l, flag |-> FALSE]

Outcome(tbl, r) == [books |-> tbl, ret |-> r]

\* the ids of the rows of a table
Ids(tbl) == {r.id : r \in tbl}

----------------------------------------------------------------------------
(* Session operations on table "books" *)

\* db_session.query(BookModel).filter(BookModel.id == book_id).first()
query_first(tbl, book_id) ==
    IF \E r \in tbl : r.id = book_id
    THEN Some(CHOOSE r \in tbl : r.id = book_id)
    ELSE None

\* a table without a key: nothing is ever in conflict
primary_key_never_conflicts(tbl, db_book) == FALSE

\* the primary key of BookModel: a commit that would store db_book next to
\* another row with its id fails, and the transaction is rolled back
primary_key_conflict(tbl, db_book) == \E r \in tbl : r.id = db_book.id

\* db_session.refresh(db_book): the row as stored under db_book's id
refresh(tbl, db_book) == CHOOSE r \in tbl : r.id = db_book.id

----------------------------------------------------------------------------
(* BookRepository *)

\* create_book returning its argument instead of the row read back
create_book_returns_argument(tbl, book) ==
    LET db_book == _convert_model_to_db(book)
    IN  IF primary_key_conflict(tbl, db_book)
        THEN Outcome(tbl, Raised)
        ELSE Outcome(tbl \cup {db_book}, RetBook(book))

create_book(tbl, book) ==
    LET db_book == _convert_model_to_db(book)
        added == tbl \cup {db_book}
    IN  IF primary_key_conflict(tbl, db_book)
        THEN Outcome(tbl, Raised)
        ELSE Outcome(added, RetBook(_convert_db_to_model(refresh(added, db_book))))

\* db_session.query(BookModel).all(): the rows, each once, in storage order;
\* the order is the storage's choice
query_all(tbl) ==
    {rows \in [1..Cardinality(tbl) -> tbl] :
        \A i \in DOMAIN rows, j \in DOMAIN rows : rows[i] = rows[j] => i = j}

\* get_all_books, given what query(...).all() returned
get_all_books(db_books) ==
    RetList([i \in DOMAIN db_books |-> _convert_db_to_model(db_books[i])])

get_book_by_id(tbl, book_id) ==
    LET db_book == query_first(tbl, book_id)
    IN  IF db_book # None
        THEN RetBook(_convert_db_to_model(db_book[1]))
        ELSE RetNone

\* the copy loop skipping one more attribute than _sa_instance_state
copy_attributes_skips_summary(db_book, updated_db_book) ==
    [key \in DOMAIN db_book |->
        IF key \in DOMAIN updated_db_book /\ key # "summary"
        THEN updated_db_book[key]
        ELSE db_book[key]]

\* for key, value in vars(updated_db_book).items(): setattr(db_book, key, value)
copy_attributes(db_book, updated_db_book) ==
    [key \in DOMAIN db_book |->
        IF key \in DOMAIN updated_db_book THEN updated_db_book[key]
        ELSE db_book[key]]

\* update_book falling back to an insert when no row has book.id
update_book_or_insert(tbl, book) ==
    LET db_book == query_first(tbl, book.id)
        written == _convert_model_to_db(book)
    IN  IF db_book = None
        THEN Outcome(tbl \cup {written}, RetBook(_convert_db_to_model(written)))
        ELSE Outcome((tbl \ {db_book[1]}) \cup {written},
                     RetBook(_convert_db_to_model(written)))

update_book(tbl, book) ==
    LET db_book == query_first(tbl, book.id)
    IN  IF db_book = None
        THEN Outcome(tbl, RetNone)
        ELSE LET updated_db_book == _convert_model_to_db(book)
                 written == copy_attributes(db_book[1], updated_db_book)
                 committed == (tbl \ {db_book[1]}) \cup {written}
             IN  Outcome(committed,
                         RetBook(_convert_db_to_model(refresh(committed, written))))

\* delete_book that reports success but never removes the row
delete_book_keeps_row(tbl, book_id) ==
    LET db_book == query_first(tbl, book_id)
    IN  IF db_book = None
        THEN Outcome(tbl, RetBool(FALSE))
        ELSE Outcome(tbl, RetBool(TRUE))

\* delete_book reporting success whether or not a row was found
delete_book_always_true(tbl, book_id) ==
    LET db_book == query_first(tbl, book_id)
    IN  IF db_book = None
        THEN Outcome(tbl, RetBool(TRUE))
        ELSE Outcome(tbl \ {db_book[1]}, RetBool(TRUE))

delete_book(tbl, book_id) ==
    LET db_book == query_first(tbl, book_id)
    IN  IF db_book = None
        THEN Outcome(tbl, RetBool(FALSE))
        ELSE Outcome(tbl \ {db_book[1]}, RetBool(TRUE))

----------------------------------------------------------------------------
(* BackendClient *)

\* save_book without the existence check: always create
save_book_always_create(tbl, book) == create_book(tbl, book)

save_book(tbl, book) ==
    LET existing_book == get_book_by_id(tbl, book.id)
    IN  IF existing_book.kind = "book"
        THEN update_book(tbl, book)
        ELSE create_book(tbl, book)

----------------------------------------------------------------------------
(* The Session the client holds.  BackendClient.__init__ takes one Session *)
(* from get_db_session and hands it to the repository; no method rolls it  *)
(* back.  A commit that fails leaves the Session's transaction inactive:   *)
(* until Session.rollback() every further use of the Session raises.       *)

\* a repository that takes a new Session for every call
db_session_per_call(s) == [id |-> s.id + 1, state |-> "active"]

\* self.db_session: the Session given to BookRepository.__init__
db_session(s) == s

\* outcome o of a repository method, run on Session s over table tbl
on_session(s, tbl, o) ==
    LET used == db_session(s)
    IN  IF used.state = "inactive"
        THEN [books |-> tbl, ret |-> Raised, session |-> used]
        ELSE [books |-> o.books, ret |-> o.ret,
              session |-> IF o.ret = Raised
                          THEN [used EXCEPT !.state = "inactive"]
                          ELSE used]

----------------------------------------------------------------------------
(* The calls, as steps of the program *)

Call(name, book_id, book) == [name |-> name, book_id |-> book_id, book |-> book]

\* a call that went through outcome o on the client's Session
Performs(c, o) ==
    LET done == on_session(session, books, o)
    IN  /\ books' = done.books
        /\ ret' = done.ret
        /\ session' = done.session
        /\ call' = c
        /\ pre' = books
        /\ deleted' = IF c.name = "delete_book" /\ done.ret.flag
                      THEN deleted \cup {c.book_id}
                      ELSE deleted

\* the same, as a step of the program that does nothing else
Returns(c, o) ==
    /\ Performs(c, o)
    /\ UNCHANGED <<mapperVars, scenarioVars, raceVars, uiVars, appVars>>

CreateBook ==
    \E book \in Books :
        Returns(Call("create_book", book.id, Some(book)), create_book(books, book))

GetAllBooks ==
    \E db_books \in query_all(books) :
        Returns(Call("get_all_books", 0, None),
                Outcome(books, get_all_books(db_books)))

GetBookById ==
    \E book_id \in BookIds :
        Returns(Call("get_book_by_id", book_id, None),
                Outcome(books, get_book_by_id(books, book_id)))

UpdateBook ==
    \E book \in Books :
        Returns(Call("update_book", book.id, Some(book)), update_book(books, book))

DeleteBook ==
    \E book_id \in BookIds :
        Returns(Call("delete_book", book_id, None), delete_book(books, book_id))

SaveBook ==
    \E book \in Books :
        Returns(Call("save_book", book.id, Some(book)), save_book(books, book))

CrudInit ==
    /\ books = {}
    /\ call = Call("init", 0, None)
    /\ ret = RetNone
    /\ pre = {}
    /\ deleted = {}
    /\ session = [id |-> 1, state |-> "active"]

MapperIdle ==
    /\ genres = <<>>
    /\ genres_str = <<>>
    /\ genres_list = <<>>
    /\ mpc = "idle"

ScenarioIdle == step = 0

RaceIdle ==
    /\ spc = "idle"
    /\ saving = None
    /\ existing = RetNone

\* no form has been created, no dialog is open, nothing has been clicked
UIIdle ==
    /\ form = [open |-> FALSE, book_to_edit |-> None]
    /\ fields = [title |-> <<>>, author |-> <<>>, year_published |-> <<>>,
                 year_read |-> <<>>, cover_image |-> <<>>, summary |-> <<>>,
                 rating |-> <<>>, genres |-> <<>>]
    /\ clicked = [book_to_edit |-> None, book |-> None]
    /\ todo = <<>>
    /\ log = <<>>
    /\ clicks = 0
    /\ handler = "none"
    /\ snack_bar = ""
    /\ confirm_dialog = [s \in {"a", "b"} |-> <<>>]

\* truncate_text has not been called
TextIdle ==
    /\ text = <<>>
    /\ max_length = 0
    /\ truncated = <<>>
    /\ tpc = "idle"

\* no TabManager has been made
TabIdle ==
    /\ tabs = [tabs |-> <<>>, selected_index |-> 0]
    /\ tab_handlers = <<>>
    /\ tab_contents = <<>>
    /\ tab_number_after_authorization = <<>>
    /\ is_authorized = FALSE
    /\ page = <<>>
    /\ invoked = <<>>
    /\ tab_call = [name |-> "none", index |-> 0]
    /\ tab_ret = "None"

AppIdle == TextIdle /\ TabIdle

Init == CrudInit /\ MapperIdle /\ ScenarioIdle /\ RaceIdle /\ UIIdle /\ AppIdle

Next ==
    \/ CreateBook
    \/ GetAllBooks
    \/ GetBookById
    \/ UpdateBook
    \/ DeleteBook
    \/ SaveBook

Spec == Init /\ [][Next]_vars

----------------------------------------------------------------------------
(* The mapper on its own: one record's genres through both conversions *)

MapperBook(g) ==
    Book(1, CHOOSE f \in ScalarFields : f.title = "Dune", g)

ConvertModelToDb ==
    /\ mpc = "model"
    /\ genres_str' = _convert_model_to_db(MapperBook(genres)).genres
    /\ mpc' = "db"
    /\ UNCHANGED <<genres, genres_list>>
    /\ UNCHANGED <<crudVars, scenarioVars, raceVars, uiVars, appVars>>

ConvertDbToModel ==
    /\ mpc = "db"
    /\ genres_list' =
           _convert_db_to_model([_convert_model_to_db(MapperBook(genres))
                                    EXCEPT !.genres = genres_str]).genres
    /\ mpc' = "done"
    /\ UNCHANGED <<genres, genres_str>>
    /\ UNCHANGED <<crudVars, scenarioVars, raceVars, uiVars, appVars>>

MapperInit ==
    /\ CrudInit
    /\ genres \in GenreLists
    /\ genres_str = <<>>
    /\ genres_list = <<>>
    /\ mpc = "model"
    /\ ScenarioIdle
    /\ RaceIdle
    /\ UIIdle
    /\ AppIdle

MapperNext == ConvertModelToDb \/ ConvertDbToModel

MapperSpec == MapperInit /\ [][MapperNext]_vars

----------------------------------------------------------------------------
(* The walk through the facade that the specification gives as its example: *)
(* save a new book, list, save it with another rating, get it, delete it,   *)
(* list.                                                                    *)

SciFi == <<"S", "c", "i", "-", "F", "i">>
Classic == <<"C", "l", "a", "s", "s", "i", "c">>

\* Book(title="Dune", author="Herbert", rating=5, genres=["Sci-Fi","Classic"],
\* ...) with any id and any value of the optional fields the example leaves open
DuneRecords ==
    {Book(id,
          [title |-> "Dune", author |-> "Herbert", year_published |-> yp,
           year_read |-> yr, cover_image_path |-> "", summary |-> sm,
           rating |-> Some(5), cover_image |-> ci, is_remote_image |-> FALSE],
          <<SciFi, Classic>>) :
        id \in BookIds,
        yp \in {None, Some(1965)}, yr \in {None, Some(2020)},
        sm \in {None, Some("Arrakis")}, ci \in {None, Some("http://img/dune")}}

ScenarioSaveNew ==
    /\ step = 0
    /\ \E book \in DuneRecords :
           Performs(Call("save_book", book.id, Some(book)), save_book(books, book))
    /\ step' = 1
    /\ UNCHANGED <<mapperVars, raceVars, uiVars, appVars>>

ScenarioGetAll ==
    /\ step \in {1, 5}
    /\ \E db_books \in query_all(books) :
           Performs(Call("get_all_books", 0, None),
                    Outcome(books, get_all_books(db_books)))
    /\ step' = step + 1
    /\ UNCHANGED <<mapperVars, raceVars, uiVars, appVars>>

\* the record the list showed, saved again with rating 4
ScenarioSaveRating ==
    /\ step = 2
    /\ ret.kind = "list"
    /\ ret.book # <<>>
    /\ LET book == [ret.book[1] EXCEPT !.rating = Some(4)]
       IN  Performs(Call("save_book", book.id, Some(book)), save_book(books, book))
    /\ step' = 3
    /\ UNCHANGED <<mapperVars, raceVars, uiVars, appVars>>

ScenarioGetById ==
    /\ step = 3
    /\ Performs(Call("get_book_by_id", call.book_id, None),
                Outcome(books, get_book_by_id(books, call.book_id)))
    /\ step' = 4
    /\ UNCHANGED <<mapperVars, raceVars, uiVars, appVars>>

ScenarioDelete ==
    /\ step = 4
    /\ Performs(Call("delete_book", call.book_id, None),
                delete_book(books, call.book_id))
    /\ step' = 5
    /\ UNCHANGED <<mapperVars, raceVars, uiVars, appVars>>

ScenarioInit == CrudInit /\ MapperIdle /\ ScenarioIdle /\ RaceIdle /\ UIIdle /\ AppIdle

ScenarioNext ==
    \/ ScenarioSaveNew
    \/ ScenarioGetAll
    \/ ScenarioSaveRating
    \/ ScenarioGetById
    \/ ScenarioDelete

ScenarioSpec == ScenarioInit /\ [][ScenarioNext]_vars

----------------------------------------------------------------------------
(* Two handlers on the one BackendClient.  save_book_data is a coroutine   *)
(* and runs save_book on the event loop; confirm_delete is a plain         *)
(* function, which the UI toolkit runs in a worker thread.  Nothing in     *)
(* the client serialises them, so the worker's delete_book can run between *)
(* any two statements of save_book; the two statements that matter are the *)
(* lookup and the write.                                                   *)

\* existing_book = self.get_book_by_id(book.id)
SaveBookLookup ==
    /\ spc = "idle"
    /\ \E book \in Books :
           /\ saving' = Some(book)
           /\ existing' =
                  on_session(session, books,
                             Outcome(books, get_book_by_id(books, book.id))).ret
    /\ spc' = "looked_up"
    /\ UNCHANGED <<crudVars, mapperVars, scenarioVars, uiVars, appVars>>

\* if existing_book: return update_book(book) else: return create_book(book)
SaveBookWrite ==
    /\ spc = "looked_up"
    /\ LET book == saving[1]
           o == IF existing = Raised THEN Outcome(books, Raised)
                ELSE IF existing.kind = "book" THEN update_book(books, book)
                ELSE create_book(books, book)
       IN  Performs(Call("save_book", book.id, Some(book)), o)
    /\ spc' = "idle"
    /\ saving' = None
    /\ existing' = RetNone
    /\ UNCHANGED <<mapperVars, scenarioVars, uiVars, appVars>>

\* success = self.backend_client.delete_book(book.id), in the worker thread
DeleteBookInThread ==
    /\ \E book_id \in BookIds :
           Performs(Call("delete_book", book_id, None), delete_book(books, book_id))
    /\ UNCHANGED <<mapperVars, scenarioVars, raceVars, uiVars, appVars>>

RaceInit == CrudInit /\ MapperIdle /\ ScenarioIdle /\ RaceIdle /\ UIIdle /\ AppIdle

RaceNext ==
    \/ SaveBookLookup
    \/ SaveBookWrite
    \/ DeleteBookInThread

RaceSpec == RaceInit /\ [][RaceNext]_vars

----------------------------------------------------------------------------
(* The book form: what the user typed is text, a sequence of characters.   *)

Digits == {"0", "1", "2", "3", "4", "5", "6", "7", "8", "9"}

DigitValue(c) ==
    CASE c = "0" -> 0 [] c = "1" -> 1 [] c = "2" -> 2 [] c = "3" -> 3
      [] c = "4" -> 4 [] c = "5" -> 5 [] c = "6" -> 6 [] c = "7" -> 7
      [] c = "8" -> 8 [] c = "9" -> 9

DigitChar(d) == CHOOSE c \in Digits : DigitValue(c) = d

\* the number a text of digits denotes
RECURSIVE DigitsValue(_)
DigitsValue(t) ==
    IF t = <<>> THEN 0
    ELSE 10 * DigitsValue(SubSeq(t, 1, Len(t) - 1)) + DigitValue(t[Len(t)])

\* int(x) for a text x of digits, signs, blanks and letters: the number, or
\* None where Python raises ValueError
int(x) ==
    LET t == strip(x)
        unsigned == IF t # <<>> /\ Head(t) \in {"+", "-"} THEN Tail(t) ELSE t
    IN  IF unsigned = <<>> \/ \E i \in 1..Len(unsigned) : unsigned[i] \notin Digits
        THEN None
        ELSE IF Head(t) = "-" THEN Some(0 - DigitsValue(unsigned))
        ELSE Some(DigitsValue(unsigned))

\* str(n) for n >= 0
RECURSIVE str(_)
str(n) ==
    IF n < 10 THEN <<DigitChar(n)>>
    ELSE str(n \div 10) \o <<DigitChar(n % 10)>>

\* ", ".join(parts)
RECURSIVE join_comma_blank(_)
join_comma_blank(parts) ==
    IF parts = <<>> THEN <<>>
    ELSE IF Len(parts) = 1 THEN parts[1]
    ELSE parts[1] \o <<",", " ">> \o join_comma_blank(Tail(parts))

\* create_form: the fields of a new form, filled from book_to_edit if any
create_form(book_to_edit) ==
    IF book_to_edit = None
    THEN [title |-> <<>>, author |-> <<>>, year_published |-> <<>>,
          year_read |-> <<>>, cover_image |-> <<>>, summary |-> <<>>,
          rating |-> <<>>, genres |-> <<>>]
    ELSE LET b == book_to_edit[1]
         IN  [title          |-> b.title,
              author         |-> b.author,
              year_published |-> IF b.year_published # None /\ b.year_published[1] # 0
                                 THEN str(b.year_published[1]) ELSE <<>>,
              year_read      |-> IF b.year_read # None /\ b.year_read[1] # 0
                                 THEN str(b.year_read[1]) ELSE <<>>,
              cover_image    |-> b.cover_image_path,
              summary        |-> IF b.summary # None THEN b.summary[1] ELSE <<>>,
              rating         |-> IF b.rating # None /\ b.rating[1] # 0
                                 THEN str(b.rating[1]) ELSE <<>>,
              genres         |-> join_comma_blank(b.genres)]

current_year == 2025

Accepted == [ok |-> TRUE, message |-> ""]
Rejected(message) == [ok |-> FALSE, message |-> message]

\* validate_form with the check of the rating left out
validate_form_without_rating(f) ==
    IF f.title = <<>> \/ strip(f.title) = <<>>
    THEN Rejected("Title is required")
    ELSE IF f.author = <<>> \/ strip(f.author) = <<>>
    THEN Rejected("Author is required")
    ELSE IF f.year_published # <<>> /\ int(f.year_published) = None
    THEN Rejected("Publication year must be a valid number")
    ELSE IF f.year_published # <<>>
            /\ (int(f.year_published)[1] < 1450
                \/ int(f.year_published)[1] > current_year)
    THEN Rejected("Publication year must be between 1450 and 2025")
    ELSE IF f.year_read # <<>> /\ int(f.year_read) = None
    THEN Rejected("Year read must be a valid number")
    ELSE IF f.year_read # <<>>
            /\ (int(f.year_read)[1] < 1900 \/ int(f.year_read)[1] > current_year)
    THEN Rejected("Year read must be between 1900 and 2025")
    ELSE IF f.rating # <<>> /\ int(f.rating) = None
    THEN Rejected("Rating must be a valid number")
    ELSE Accepted

validate_form(f) ==
    IF f.title = <<>> \/ strip(f.title) = <<>>
    THEN Rejected("Title is required")
    ELSE IF f.author = <<>> \/ strip(f.author) = <<>>
    THEN Rejected("Author is required")
    ELSE IF f.year_published # <<>> /\ int(f.year_published) = None
    THEN Rejected("Publication year must be a valid number")
    ELSE IF f.year_published # <<>>
            /\ (int(f.year_published)[1] < 1450
                \/ int(f.year_published)[1] > current_year)
    THEN Rejected("Publication year must be between 1450 and 2025")
    ELSE IF f.year_read # <<>> /\ int(f.year_read) = None
    THEN Rejected("Year read must be a valid number")
    ELSE IF f.year_read # <<>>
            /\ (int(f.year_read)[1] < 1900 \/ int(f.year_read)[1] > current_year)
    THEN Rejected("Year read must be between 1900 and 2025")
    ELSE IF f.rating # <<>> /\ int(f.rating) = None
    THEN Rejected("Rating must be a valid number")
    ELSE IF f.rating # <<>> /\ (int(f.rating)[1] < 1 \/ int(f.rating)[1] > 5)
    THEN Rejected("Rating must be between 1 and 5")
    ELSE Accepted

\* the record built from the fields, under the id given
FormBook(f, id) ==
    [id               |-> id,
     title            |-> strip(f.title),
     author           |-> strip(f.author),
     year_published   |-> IF f.year_published # <<>> THEN int(f.year_published)
                          ELSE None,
     year_read        |-> IF f.year_read # <<>> THEN int(f.year_read) ELSE None,
     cover_image_path |-> strip(f.cover_image),
     summary          |-> IF f.summary # <<>> THEN Some(strip(f.summary)) ELSE None,
     rating           |-> IF f.rating # <<>> THEN int(f.rating) ELSE None,
     genres           |-> IF f.genres # <<>>
                          THEN strip_nonblank(split(f.genres, ",")) ELSE <<>>,
     cover_image      |-> None,
     is_remote_image  |-> FALSE]

\* int() raises in collect_form_data: the except clause returns None
raises_ValueError(f) ==
    \/ f.year_published # <<>> /\ int(f.year_published) = None
    \/ f.year_read # <<>> /\ int(f.year_read) = None
    \/ f.rating # <<>> /\ int(f.rating) = None

\* collect_form_data that never passes an id on: every record is a new one
collect_form_data_always_new_id(f, book_to_edit, uuid4) ==
    IF raises_ValueError(f) THEN None ELSE Some(FormBook(f, uuid4))

\* collect_form_data; uuid4 is the id that the default_factory of Book.id
\* gives a record built without one
collect_form_data(f, book_to_edit, uuid4) ==
    IF raises_ValueError(f) THEN None
    ELSE IF book_to_edit # None THEN Some(FormBook(f, book_to_edit[1].id))
    ELSE Some(FormBook(f, uuid4))

\* handle_save_click that runs the callback first and closes the dialog after
handle_save_click_callback_first(is_valid, book) ==
    IF ~is_valid THEN <<"snack_bar">>
    ELSE IF book # None THEN <<"on_save_callback", "close_dialog", "sleep">>
    ELSE <<"snack_bar">>

\* handle_save_click: the steps it takes, given what validate_form and
\* collect_form_data returned; it gives way to other handlers after each
handle_save_click(is_valid, book) ==
    IF ~is_valid THEN <<"snack_bar">>
    ELSE IF book # None THEN <<"close_dialog", "sleep", "on_save_callback">>
    ELSE <<"snack_bar">>

\* what the user may have typed when Save is clicked: one good input, and
\* that input with one field changed
GoodInput ==
    [title |-> <<"D">>, author |-> <<"H">>, year_published |-> <<>>,
     year_read |-> <<>>, cover_image |-> <<>>, summary |-> <<>>,
     rating |-> <<>>, genres |-> <<>>]

FormInputs ==
    {GoodInput}
    \cup {[GoodInput EXCEPT !.title = t] : t \in {<<>>, <<" ">>, <<" ", "D", " ">>}}
    \cup {[GoodInput EXCEPT !.author = t] : t \in {<<>>, <<" ">>}}
    \cup {[GoodInput EXCEPT !.year_published = t] :
             t \in {<<"1", "4", "4", "9">>, <<"2", "0", "2", "5">>, <<"2", "0", "2", "6">>, <<"x">>}}
    \cup {[GoodInput EXCEPT !.year_read = t] :
             t \in {<<"1", "8", "9", "9">>, <<"1", "9", "0", "0">>, <<"2", "0", "2", "6">>}}
    \cup {[GoodInput EXCEPT !.rating = t] :
             t \in {<<"0">>, <<"6">>, <<"-", "1">>, <<" ", "3", " ">>}}
    \cup {[GoodInput EXCEPT !.genres = t] : t \in {<<"a", ",", " ", ",", "a">>}}
    \cup {[GoodInput EXCEPT !.summary = t] : t \in {<<" ", "s", " ">>}}

\* ids that no record has had yet: uuid4 gives none of the others
UnusedIds == BookIds \ (Ids(books) \cup deleted)

\* one step of handle_save_click, for its record b.  The callback is
\* save_book_data: save_book, then a refresh of the grid, which reads the
\* table and changes nothing that is modelled here
Execute(item, b, message) ==
    IF item = "on_save_callback"
    THEN /\ Performs(Call("save_book", b[1].id, b), save_book(books, b[1]))
         /\ handler' = "save_book_data"
         /\ UNCHANGED <<form, snack_bar>>
    ELSE IF item = "close_dialog"
    THEN /\ form' = [form EXCEPT !.open = FALSE]
         /\ handler' = "handle_save_click"
         /\ UNCHANGED <<crudVars, snack_bar>>
    ELSE IF item = "snack_bar"
    THEN /\ snack_bar' = message
         /\ handler' = "handle_save_click"
         /\ UNCHANGED <<crudVars, form>>
    ELSE /\ handler' = "handle_save_click"
         /\ UNCHANGED <<crudVars, form, snack_bar>>

\* add_book: BookForm(...).show_dialog()
AddBook ==
    /\ ~form.open
    /\ todo = <<>>
    /\ form' = [open |-> TRUE, book_to_edit |-> None]
    /\ fields' = create_form(None)
    /\ handler' = "add_book"
    /\ UNCHANGED <<clicked, todo, log, clicks, snack_bar, confirm_dialog>>
    /\ UNCHANGED <<crudVars, mapperVars, scenarioVars, raceVars, appVars>>

\* edit_book, from the card of a book in the grid
EditBook ==
    /\ ~form.open
    /\ todo = <<>>
    /\ \E db_book \in books :
           /\ form' = [open |-> TRUE,
                       book_to_edit |-> Some(_convert_db_to_model(db_book))]
           /\ fields' = create_form(Some(_convert_db_to_model(db_book)))
    /\ handler' = "edit_book"
    /\ UNCHANGED <<clicked, todo, log, clicks, snack_bar, confirm_dialog>>
    /\ UNCHANGED <<crudVars, mapperVars, scenarioVars, raceVars, appVars>>

\* the Cancel button of the form: BookForm.close_dialog
CloseDialog ==
    /\ form.open
    /\ todo = <<>>
    /\ form' = [form EXCEPT !.open = FALSE]
    /\ handler' = "close_dialog"
    /\ UNCHANGED <<fields, clicked, todo, log, clicks, snack_bar, confirm_dialog>>
    /\ UNCHANGED <<crudVars, mapperVars, scenarioVars, raceVars, appVars>>

\* the Save button: handle_save_click up to its first await, on the fields
\* as the user left them (typed anew, or as they were)
HandleSaveClick ==
    /\ form.open
    /\ todo = <<>>
    /\ clicks < MaxClicks
    /\ \E input \in FormInputs \cup {fields},
          uuid4 \in (IF UnusedIds # {} THEN UnusedIds ELSE {0}) :
           LET valid == validate_form(input)
               book == IF valid.ok
                       THEN collect_form_data(input, form.book_to_edit, uuid4)
                       ELSE None
               steps == handle_save_click(valid.ok, book)
               message == IF valid.ok
                          THEN "Error creating book. Please check your inputs."
                          ELSE valid.message
           IN  /\ UnusedIds = {} => (form.book_to_edit # None \/ ~valid.ok)
               /\ fields' = input
               /\ clicked' = [book_to_edit |-> form.book_to_edit, book |-> book]
               /\ Execute(Head(steps), book, message)
               /\ todo' = Tail(steps)
               /\ log' = <<Head(steps)>>
    /\ clicks' = clicks + 1
    /\ UNCHANGED confirm_dialog
    /\ UNCHANGED <<mapperVars, scenarioVars, raceVars, appVars>>

\* handle_save_click going on after an await
ResumeSaveClick ==
    /\ todo # <<>>
    /\ Execute(Head(todo), clicked.book, "")
    /\ todo' = Tail(todo)
    /\ log' = Append(log, Head(todo))
    /\ UNCHANGED <<fields, clicked, clicks, confirm_dialog>>
    /\ UNCHANGED <<mapperVars, scenarioVars, raceVars, appVars>>

\* the table as an earlier run of the program left it in data/library.db:
\* empty, or with a book that was saved from the form
StoredBefore ==
    {{},
     {_convert_model_to_db(FormBook([GoodInput EXCEPT !.rating = <<"4">>], 1))}}

FormInit ==
    /\ books \in StoredBefore
    /\ call = Call("init", 0, None)
    /\ ret = RetNone
    /\ pre = books
    /\ deleted = {}
    /\ session = [id |-> 1, state |-> "active"]
    /\ MapperIdle /\ ScenarioIdle /\ RaceIdle /\ UIIdle /\ AppIdle

FormNext ==
    \/ AddBook
    \/ EditBook
    \/ CloseDialog
    \/ HandleSaveClick
    \/ ResumeSaveClick

FormSpec == FormInit /\ [][FormNext]_vars

\* the table holding one book that was stored through the client with an
\* embedded cover image, which the form has no field for
StoredWithCover ==
    {{[db_book EXCEPT !.cover_image = Some("data:image/png;base64"),
                      !.is_remote_image = TRUE] : db_book \in tbl} :
        tbl \in StoredBefore \ {{}}}

EditInit ==
    /\ books \in StoredWithCover
    /\ call = Call("init", 0, None)
    /\ ret = RetNone
    /\ pre = books
    /\ deleted = {}
    /\ session = [id |-> 1, state |-> "active"]
    /\ MapperIdle /\ ScenarioIdle /\ RaceIdle /\ UIIdle /\ AppIdle

\* the form at work on that table
EditSpec == EditInit /\ [][FormNext]_vars

----------------------------------------------------------------------------
(* Deleting from the grid.  Each page session has its own MainTabBuilder   *)
(* and so its own confirm_dialog; all of them share the BackendClient.     *)

PageSessions == {"a", "b"}

\* handle_delete_book calling the backend at once, without the dialog
handle_delete_book_without_confirmation(tbl, book_id) == delete_book(tbl, book_id)

\* handle_delete_book: outside confirm_delete it makes no call to the backend
handle_delete_book(tbl, book_id) == Outcome(tbl, RetNone)

\* the records that reach save_book_data here: per id, one with every
\* optional field absent and one with every optional field present
SavedBooks == {Book(id, f, <<>>) : id \in BookIds, f \in ScalarFields}

\* save_book_data, with a record that came from a form
SaveBookData ==
    /\ \E book \in SavedBooks :
           Performs(Call("save_book", book.id, Some(book)), save_book(books, book))
    /\ handler' = "save_book_data"
    /\ UNCHANGED <<formVars, snack_bar, confirm_dialog>>
    /\ UNCHANGED <<mapperVars, scenarioVars, raceVars, appVars>>

\* the Delete button on the card of a book of the grid
HandleDeleteBook ==
    /\ \E s \in PageSessions, db_book \in books :
           /\ books' = handle_delete_book(books, db_book.id).books
           /\ confirm_dialog' = [confirm_dialog EXCEPT ![s] = Some(db_book.id)]
    /\ handler' = "handle_delete_book"
    /\ UNCHANGED <<call, ret, pre, deleted, session, formVars, snack_bar>>
    /\ UNCHANGED <<mapperVars, scenarioVars, raceVars, appVars>>

\* the Cancel button of the confirmation: MainTabBuilder.close_dialog
CancelDelete ==
    /\ \E s \in PageSessions :
           /\ confirm_dialog[s] # None
           /\ confirm_dialog' = [confirm_dialog EXCEPT ![s] = None]
    /\ handler' = "close_dialog"
    /\ UNCHANGED <<crudVars, formVars, snack_bar>>
    /\ UNCHANGED <<mapperVars, scenarioVars, raceVars, appVars>>

\* the Delete button of the confirmation: the closure confirm_delete, for
\* the book its dialog was opened for (the text of the SnackBar without the
\* title; the refresh of the grid after a success only reads the table)
ConfirmDelete ==
    /\ \E s \in PageSessions :
           /\ confirm_dialog[s] # None
           /\ Performs(Call("delete_book", confirm_dialog[s][1], None),
                       delete_book(books, confirm_dialog[s][1]))
           /\ confirm_dialog' = IF ret' = Raised THEN confirm_dialog
                                ELSE [confirm_dialog EXCEPT ![s] = None]
    /\ snack_bar' = IF ret' = Raised THEN snack_bar
                    ELSE IF ret'.flag THEN "Book deleted successfully!"
                    ELSE "Failed to delete book"
    /\ handler' = "confirm_delete"
    /\ UNCHANGED formVars
    /\ UNCHANGED <<mapperVars, scenarioVars, raceVars, appVars>>

DeleteInit == CrudInit /\ MapperIdle /\ ScenarioIdle /\ RaceIdle /\ UIIdle /\ AppIdle

DeleteNext ==
    \/ SaveBookData
    \/ HandleDeleteBook
    \/ CancelDelete
    \/ ConfirmDelete

DeleteSpec == DeleteInit /\ [][DeleteNext]_vars

----------------------------------------------------------------------------
(* UIComponents.truncate_text, on texts of letters and dots *)

TextChars == {"a", "."}

RECURSIVE TextsOfLen(_)
TextsOfLen(n) ==
    IF n = 0 THEN {<<>>}
    ELSE {Append(t, c) : t \in TextsOfLen(n - 1), c \in TextChars}

Texts == UNION {TextsOfLen(n) : n \in 0..MaxText}

\* s[:stop]: a negative stop counts from the end of s
slice_to(s, stop) ==
    IF stop >= 0
    THEN SubSeq(s, 1, IF stop < Len(s) THEN stop ELSE Len(s))
    ELSE SubSeq(s, 1, IF Len(s) + stop > 0 THEN Len(s) + stop ELSE 0)

ellipsis == <<".", ".", ".">>

truncate_text(t, n) ==
    IF Len(t) <= n THEN t
    ELSE slice_to(t, n - 3) \o ellipsis

TruncateText ==
    /\ tpc = "input"
    /\ truncated' = truncate_text(text, max_length)
    /\ tpc' = "done"
    /\ UNCHANGED <<text, max_length>>
    /\ UNCHANGED <<crudVars, mapperVars, scenarioVars, raceVars, uiVars, tabVars>>

TextInit ==
    /\ text \in Texts
    /\ max_length \in 0..MaxLength
    /\ truncated = <<>>
    /\ tpc = "input"
    /\ CrudInit /\ MapperIdle /\ ScenarioIdle /\ RaceIdle /\ UIIdle /\ TabIdle

TextNext == TruncateText

TextSpec == TextInit /\ [][TextNext]_vars

----------------------------------------------------------------------------
(* TabManager.  A Tab is known by its title, a handler by its name, a      *)
(* content by the title of the tab it was made for; page is the list of    *)
(* controls on the page, "tabs" being the container that holds the tabs.   *)
(* Indices are Python's: the first tab has index 0.                        *)

TitlePool == <<"Welcome", "About me", "Settings", "Help">>

\* the handler written for the tab with a title
HandlerOf(title) ==
    CASE title = "Welcome" -> "create_main_tab"
      [] title = "About me" -> "create_aboutme_tab"
      [] title = "Settings" -> "create_settings_tab"
      [] title = "Help" -> "create_help_tab"

\* d.get(k)
get(d, k) == IF k \in DOMAIN d THEN Some(d[k]) ELSE None

\* d.pop(k), for the dict that is left
pop(d, k) == [j \in DOMAIN d \ {k} |-> d[j]]

\* l.pop(index), for the list that is left
list_pop(l, index) ==
    [j \in 1..(Len(l) - 1) |-> IF j <= index THEN l[j] ELSE l[j + 1]]

\* l[index]
item(l, index) == l[index + 1]

\* the dict the two loops of remove_tab build: keys above index move down
rekey(d, index) ==
    [j \in {IF i > index THEN i - 1 ELSE i : i \in DOMAIN d} |->
        IF j + 1 \in DOMAIN d /\ j + 1 > index THEN d[j + 1] ELSE d[j]]

\* the TabManager and its page, as one object
TabManager ==
    [tabs |-> tabs, tab_handlers |-> tab_handlers, tab_contents |-> tab_contents,
     tab_number_after_authorization |-> tab_number_after_authorization,
     is_authorized |-> is_authorized, page |-> page, invoked |-> <<>>,
     snack_bar |-> snack_bar, ret |-> "None"]

\* _clear_page: page.clean(), then the tabs are added back
_clear_page(self) == [self EXCEPT !.page = <<"tabs">>]

\* handler = self.tab_handlers.get(index); if handler: handler()
\* (a handler puts what it builds on the page)
call_handler(self, index) ==
    LET h == get(self.tab_handlers, index)
    IN  IF h # None
        THEN [self EXCEPT !.page = Append(self.page, h[1]),
                          !.invoked = Append(self.invoked, h[1])]
        ELSE self

\* handle_tab_change that lets everyone into every tab
handle_tab_change_without_check(self, e) ==
    call_handler(_clear_page(self), e.control.selected_index)

\* handle_tab_change; e.control is self.tabs
handle_tab_change(self, e) ==
    LET selected_index == e.control.selected_index
    IN  IF /\ self.tab_number_after_authorization # None
           /\ selected_index >= self.tab_number_after_authorization[1]
           /\ ~self.is_authorized
        THEN [self EXCEPT !.tabs.selected_index = self.tabs.selected_index,
                          !.snack_bar = "Please authorize to access this tab."]
        ELSE call_handler(_clear_page(self), selected_index)

set_tab_content(self, tab_index, content) ==
    LET stored == [self EXCEPT !.tab_contents =
                      [j \in DOMAIN self.tab_contents \cup {tab_index} |->
                          IF j = tab_index THEN content ELSE self.tab_contents[j]]]
    IN  IF stored.tabs.selected_index = tab_index
        THEN [stored EXCEPT !.page = <<"tabs", content>>]
        ELSE stored

\* add_tab; h is the Optional handler
add_tab(self, title, h) ==
    LET appended == Append(self.tabs.tabs, title)
        new_index == Len(appended) - 1
    IN  [self EXCEPT !.tabs.tabs = appended,
                     !.tab_handlers =
                         IF h # None
                         THEN [j \in DOMAIN self.tab_handlers \cup {new_index} |->
                                  IF j = new_index THEN h[1] ELSE self.tab_handlers[j]]
                         ELSE self.tab_handlers,
                     !.ret = "new_index"]

\* remove_tab that drops the entries of index and leaves the other keys alone
remove_tab_keeping_keys(self, index) ==
    IF 0 <= index /\ index < Len(self.tabs.tabs)
    THEN LET popped == list_pop(self.tabs.tabs, index)
         IN  [self EXCEPT
                 !.tabs = [tabs |-> popped,
                           selected_index |->
                               IF self.tabs.selected_index >= Len(popped)
                               THEN Len(popped) - 1
                               ELSE self.tabs.selected_index],
                 !.tab_handlers = pop(self.tab_handlers, index),
                 !.tab_contents = pop(self.tab_contents, index)]
    ELSE self

remove_tab(self, index) ==
    IF 0 <= index /\ index < Len(self.tabs.tabs)
    THEN LET popped == list_pop(self.tabs.tabs, index)
         IN  [self EXCEPT
                 !.tabs = [tabs |-> popped,
                           selected_index |->
                               IF self.tabs.selected_index >= Len(popped)
                               THEN Len(popped) - 1
                               ELSE self.tabs.selected_index],
                 !.tab_handlers = rekey(pop(self.tab_handlers, index), index),
                 !.tab_contents = rekey(pop(self.tab_contents, index), index)]
    ELSE self

select_tab(self, index) ==
    IF 0 <= index /\ index < Len(self.tabs.tabs)
    THEN call_handler(_clear_page([self EXCEPT !.tabs.selected_index = index]), index)
    ELSE self

\* back_to_previous that goes back from the first tab too
back_to_previous_from_first(self) ==
    LET current_index == self.tabs.selected_index
    IN  IF current_index >= 0
        THEN [select_tab(self, current_index - 1) EXCEPT !.ret = "True"]
        ELSE [self EXCEPT !.ret = "False"]

back_to_previous(self) ==
    LET current_index == self.tabs.selected_index
    IN  IF current_index > 0
        THEN [select_tab(self, current_index - 1) EXCEPT !.ret = "True"]
        ELSE [self EXCEPT !.ret = "False"]

\* FletApp.back_handler: the Back button
back_handler(self) ==
    LET after == back_to_previous(self)
    IN  IF after.ret = "False"
        THEN [after EXCEPT !.page = Append(after.page, "SnackBar"),
                           !.snack_bar = "Already at the first tab",
                           !.ret = "None"]
        ELSE [after EXCEPT !.ret = "None"]

set_authorization_status(self, status) == [self EXCEPT !.is_authorized = status]

\* the call c has run and left the TabManager and its page as in after
TabReturns(c, after) ==
    /\ Len(after.page) <= MaxControls
    /\ tabs' = after.tabs
    /\ tab_handlers' = after.tab_handlers
    /\ tab_contents' = after.tab_contents
    /\ tab_number_after_authorization' = after.tab_number_after_authorization
    /\ is_authorized' = after.is_authorized
    /\ page' = after.page
    /\ invoked' = after.invoked
    /\ snack_bar' = after.snack_bar
    /\ tab_ret' = after.ret
    /\ tab_call' = c
    /\ UNCHANGED <<formVars, handler, confirm_dialog>>
    /\ UNCHANGED <<crudVars, mapperVars, scenarioVars, raceVars, textVars>>

TabCall(name, index) == [name |-> name, index |-> index]

\* the indices calls are made with: those of the tabs, one below, one above
Indices == (0 - 1)..Len(tabs.tabs)

\* the user selects another tab: the tabs control takes the selection and
\* fires on_change
ChangeTab ==
    \E i \in 0..(Len(tabs.tabs) - 1) :
        /\ i # tabs.selected_index
        /\ LET control == [tabs EXCEPT !.selected_index = i]
           IN  TabReturns(TabCall("handle_tab_change", i),
                          handle_tab_change([TabManager EXCEPT !.tabs = control],
                                            [control |-> control]))

SetTabContent ==
    \E i \in 0..(Len(tabs.tabs) - 1) :
        TabReturns(TabCall("set_tab_content", i),
                   set_tab_content(TabManager, i, item(tabs.tabs, i)))

\* the titles a new tab may have: those later in TitlePool than every title
\* in use, so that no two tabs have the same title
NewTitles ==
    {TitlePool[k] : k \in {n \in 1..MaxTabs :
        \A j \in DOMAIN tabs.tabs, m \in 1..MaxTabs :
            TitlePool[m] = tabs.tabs[j] => m < n}}

AddTab ==
    \E title \in NewTitles :
    \E h \in {None, Some(HandlerOf(title))} :
        TabReturns(TabCall("add_tab", Len(tabs.tabs)), add_tab(TabManager, title, h))

RemoveTab ==
    \E i \in Indices :
        TabReturns(TabCall("remove_tab", i), remove_tab(TabManager, i))

SelectTab ==
    \E i \in Indices :
        TabReturns(TabCall("select_tab", i), select_tab(TabManager, i))

BackToPrevious ==
    TabReturns(TabCall("back_to_previous", 0), back_to_previous(TabManager))

BackHandler ==
    TabReturns(TabCall("back_handler", 0), back_handler(TabManager))

SetAuthorizationStatus ==
    \E status \in BOOLEAN :
        TabReturns(TabCall("set_authorization_status", 0),
                   set_authorization_status(TabManager, status))

\* TabManager(page, tab_titles, tab_handlers, tab_number_after_authorization,
\* is_authorized), its tabs put on the page: n tabs, handlers for some
TabManagerMade(n, authorization, authorized) ==
    /\ tabs = [tabs |-> SubSeq(TitlePool, 1, n), selected_index |-> 0]
    /\ \E given \in SUBSET (0..(n - 1)) :
           tab_handlers = [j \in given |-> HandlerOf(TitlePool[j + 1])]
    /\ tab_contents = <<>>
    /\ tab_number_after_authorization \in authorization
    /\ is_authorized \in authorized
    /\ page = <<"tabs">>
    /\ invoked = <<>>
    /\ tab_call = TabCall("__init__", 0)
    /\ tab_ret = "None"
    /\ CrudInit /\ MapperIdle /\ ScenarioIdle /\ RaceIdle /\ UIIdle /\ TextIdle

\* moving between the tabs of a TabManager, with or without a restriction
TabInit ==
    \E n \in 1..MaxTabs :
        TabManagerMade(n, {None} \cup {Some(k) : k \in 0..(MaxTabs - 1)}, BOOLEAN)

TabNext ==
    \/ ChangeTab
    \/ SelectTab
    \/ BackToPrevious
    \/ BackHandler
    \/ SetAuthorizationStatus

TabSpec == TabInit /\ [][TabNext]_vars

\* adding and removing tabs of a TabManager that restricts nothing
TabListInit == \E n \in 1..2 : TabManagerMade(n, {None}, {FALSE})

TabListNext ==
    \/ SetTabContent
    \/ AddTab
    \/ RemoveTab
    \/ SelectTab

TabListSpec == TabListInit /\ [][TabListNext]_vars

----------------------------------------------------------------------------
(* The page of the application: the tabs, and under them what the handler  *)
(* of the selected tab has put there.  A control is known by its type and  *)
(* the controls it holds; the card of a book holds that book.              *)

Control(type, held) == [type |-> type, controls |-> held, book |-> None]

\* create_book_card: the card (a Container) with the details of one book
create_book_card(book) == [type |-> "Container", controls |-> <<>>, book |-> Some(book)]

\* create_book_grid that lays out every second book only
create_book_grid_every_second(bks) ==
    IF bks = <<>>
    THEN Control("Container", <<Control("Text", <<>>)>>)
    ELSE Control("Column",
                 [i \in 1..((Len(bks) + 1) \div 2) |->
                     Control("Row", <<create_book_card(bks[2 * i - 1])>>)])

\* create_book_grid: a notice when there is no book, else a Column of rows,
\* one per book, each holding the card of that book
create_book_grid(bks) ==
    IF bks = <<>>
    THEN Control("Container", <<Control("Text", <<>>)>>)
    ELSE Control("Column",
                 [i \in 1..Len(bks) |-> Control("Row", <<create_book_card(bks[i])>>)])

\* create_tab: the main layout, given what get_all_books returned
create_tab(bks) ==
    Control("Column",
            <<Control("Container", <<Control("Button", <<>>)>>),
              Control("Container", <<Control("Column", <<>>)>>),
              Control("Container", <<>>),
              create_book_grid(bks)>>)

\* what create_aboutme_tab adds: add_elements_to_page(header, form)
aboutme_column ==
    Control("Column",
            <<Control("Row", <<Control("Text", <<>>)>>),
              Control("Row", <<Control("Column", <<>>)>>)>>)

\* the Container that holds the tabs
tabs_container == Control("Container", <<Control("Tabs", <<>>)>>)

\* update_book_grid: the new grid replaces the fourth control of the first
\* Column of the page that has four controls or more
update_book_grid(pg, bks) ==
    LET updated_grid == create_book_grid(bks)
        layouts == {k \in DOMAIN pg :
                       pg[k].type = "Column" /\ Len(pg[k].controls) >= 4}
    IN  IF layouts = {} THEN pg
        ELSE LET k == CHOOSE n \in layouts : \A j \in layouts : n <= j
             IN  [pg EXCEPT ![k].controls[4] = updated_grid]

\* the books whose cards a grid holds, in the order of the cards
BooksOfGrid(grid) ==
    IF grid.type = "Column"
    THEN [i \in DOMAIN grid.controls |-> grid.controls[i].controls[1].book[1]]
    ELSE <<>>

\* the grid of the main layout on the page
ShownGrid == page[2].controls[4]

\* the records that reach save_book_data and the other pages' handlers: two
\* books, and the first of them with every field changed
GridBooks ==
    {b \in SavedBooks : b.id = 1 \/ (b.id = MaxIds /\ b.title = "Dune")}

\* FletApp(page, ...): the TabManager with the two tabs, then select_tab(0);
\* the table is as an earlier run left it
GridInit ==
    /\ books \in {{}} \cup {{_convert_model_to_db(b)} : b \in GridBooks}
    /\ call = Call("init", 0, None)
    /\ ret = RetNone
    /\ pre = books
    /\ deleted = {}
    /\ session = [id |-> 1, state |-> "active"]
    /\ tabs = [tabs |-> <<"Welcome", "About me">>, selected_index |-> 0]
    /\ tab_handlers = [j \in {0, 1} |-> HandlerOf(TitlePool[j + 1])]
    /\ tab_contents = <<>>
    /\ tab_number_after_authorization = None
    /\ is_authorized = FALSE
    /\ \E db_books \in query_all(books) :
           page = <<tabs_container, create_tab(get_all_books(db_books).book)>>
    /\ invoked = <<"create_main_tab">>
    /\ tab_call = TabCall("select_tab", 0)
    /\ tab_ret = "None"
    /\ MapperIdle /\ ScenarioIdle /\ RaceIdle /\ UIIdle /\ TextIdle

\* the user goes to a tab (or back from the second): the page is cleared and
\* the handler of the tab fills it
ShowTab ==
    /\ \E i \in {0, 1} :
           /\ i # tabs.selected_index
           /\ tabs' = [tabs EXCEPT !.selected_index = i]
           /\ invoked' = <<tab_handlers[i]>>
           /\ tab_call' = TabCall("handle_tab_change", i)
           /\ IF tab_handlers[i] = "create_main_tab"
              THEN \E db_books \in query_all(books) :
                       page' = <<tabs_container,
                                 create_tab(get_all_books(db_books).book)>>
              ELSE page' = <<tabs_container, aboutme_column>>
    /\ confirm_dialog' = [s \in PageSessions |-> None]
    /\ handler' = "handle_tab_change"
    /\ UNCHANGED <<tab_handlers, tab_contents, tab_number_after_authorization,
                   is_authorized, tab_ret>>
    /\ UNCHANGED <<crudVars, formVars, snack_bar>>
    /\ UNCHANGED <<mapperVars, scenarioVars, raceVars, textVars>>

\* save_book_data: save_book, and the grid brought up to date if a record
\* came back
RefreshAfterSave ==
    /\ \E book \in GridBooks :
           Performs(Call("save_book", book.id, Some(book)), save_book(books, book))
    /\ IF ret'.kind = "book"
       THEN \E db_books \in query_all(books') :
                page' = update_book_grid(page, get_all_books(db_books).book)
       ELSE page' = page
    /\ handler' = "save_book_data"
    /\ UNCHANGED <<tabs, tab_handlers, tab_contents, tab_number_after_authorization,
                   is_authorized, invoked, tab_call, tab_ret>>
    /\ UNCHANGED <<formVars, snack_bar, confirm_dialog>>
    /\ UNCHANGED <<mapperVars, scenarioVars, raceVars, textVars>>

\* the Delete button on a card of the grid: the confirmation is put on the
\* page
AskBeforeDelete ==
    /\ tabs.selected_index = 0
    /\ Len(page) < MaxControls
    /\ \E i \in DOMAIN BooksOfGrid(ShownGrid) :
           confirm_dialog' =
               [confirm_dialog EXCEPT !["a"] = Some(BooksOfGrid(ShownGrid)[i].id)]
    /\ page' = Append(page, Control("AlertDialog", <<>>))
    /\ handler' = "handle_delete_book"
    /\ UNCHANGED <<crudVars, formVars, snack_bar, tabVars_but_page>>
    /\ UNCHANGED <<mapperVars, scenarioVars, raceVars, textVars>>

\* Cancel in the confirmation: it is closed and stays on the page
CancelOnPage ==
    /\ confirm_dialog["a"] # None
    /\ confirm_dialog' = [confirm_dialog EXCEPT !["a"] = None]
    /\ handler' = "close_dialog"
    /\ UNCHANGED <<crudVars, formVars, snack_bar, tabVars>>
    /\ UNCHANGED <<mapperVars, scenarioVars, raceVars, textVars>>

\* Delete in the confirmation: confirm_delete, with the snack bar put on the
\* page and, after a success, the grid brought up to date
RefreshAfterDelete ==
    /\ confirm_dialog["a"] # None
    /\ Performs(Call("delete_book", confirm_dialog["a"][1], None),
                delete_book(books, confirm_dialog["a"][1]))
    /\ confirm_dialog' = [confirm_dialog EXCEPT !["a"] = None]
    /\ IF ret'.flag
       THEN /\ snack_bar' = "Book deleted successfully!"
            /\ \E db_books \in query_all(books') :
                   page' = update_book_grid(Append(page, Control("SnackBar", <<>>)),
                                            get_all_books(db_books).book)
       ELSE /\ snack_bar' = "Failed to delete book"
            /\ page' = Append(page, Control("SnackBar", <<>>))
    /\ handler' = "confirm_delete"
    /\ UNCHANGED <<formVars, tabVars_but_page>>
    /\ UNCHANGED <<mapperVars, scenarioVars, raceVars, textVars>>

\* a save or a confirmed delete on the page of another session: the table
\* changes, this page does not
OtherPage ==
    /\ \/ \E book \in GridBooks :
              Performs(Call("save_book", book.id, Some(book)), save_book(books, book))
       \/ \E db_book \in books :
              Performs(Call("delete_book", db_book.id, None),
                       delete_book(books, db_book.id))
    /\ handler' = "other_page"
    /\ UNCHANGED <<formVars, snack_bar, confirm_dialog, tabVars>>
    /\ UNCHANGED <<mapperVars, scenarioVars, raceVars, textVars>>

GridNext ==
    \/ ShowTab
    \/ RefreshAfterSave
    \/ AskBeforeDelete
    \/ CancelOnPage
    \/ RefreshAfterDelete
    \/ OtherPage

GridSpec == GridInit /\ [][GridNext]_vars

----------------------------------------------------------------------------
(* Vocabulary of the properties *)

HasRow(tbl, book_id) == \E r \in tbl : r.id = book_id
RowsOf(tbl, book_id) == {r \in tbl : r.id = book_id}
OtherRows(tbl, book_id) == {r \in tbl : r.id # book_id}
RowCount(tbl) == Cardinality(tbl)

\* row r holds the value of every field of book b (genres as the stored join)
RowHoldsBook(r, b) ==
    /\ r.id = b.id
    /\ r.title = b.title
    /\ r.author = b.author
    /\ r.year_published = b.year_published
    /\ r.year_read = b.year_read
    /\ r.cover_image_path = b.cover_image_path
    /\ r.summary = b.summary
    /\ r.rating = b.rating
    /\ r.genres = join(",", b.genres)
    /\ r.cover_image = b.cover_image
    /\ r.is_remote_image = b.is_remote_image

----------------------------------------------------------------------------
(* C1: save_book(r) updates the row with r.id in place when it exists (row  *)
(* count unchanged, every field of that row takes r's value) and otherwise  *)
(* inserts one new row (row count up by exactly one).                       *)
C1_SaveBookUpdatesOrInserts ==
    call.name = "save_book" =>
        LET r == call.book[1]
        IN  IF HasRow(pre, r.id)
            THEN /\ RowCount(books) = RowCount(pre)
                 /\ RowCount(RowsOf(books, r.id)) = 1
                 /\ \A row \in RowsOf(books, r.id) : RowHoldsBook(row, r)
            ELSE /\ RowCount(books) = RowCount(pre) + 1
                 /\ pre \subseteq books
                 /\ \A row \in books \ pre : RowHoldsBook(row, r)

\* a save_book that found a row and changed it
C1_Witness ==
    /\ call.name = "save_book"
    /\ HasRow(pre, call.book_id)
    /\ RowsOf(pre, call.book_id) # RowsOf(books, call.book_id)
    /\ RowCount(books) = 2

(* C2: after result = save_book(r) for a record r whose id matched no row, *)
(* a following get_book_by_id(result.id) returns a record equal to result. *)
C2_SaveThenGetReturnsResult ==
    [][(/\ call.name = "save_book"
        /\ ~HasRow(pre, call.book_id)
        /\ ret.kind = "book"
        /\ call'.name = "get_book_by_id"
        /\ call'.book_id = ret.book[1].id)
       => (ret'.kind = "book" /\ ret'.book = ret.book)]_vars

\* save_book has inserted a second book and returned it with genres that
\* differ from the list passed in; get_book_by_id of its id answers the same
C2_Witness ==
    /\ call.name = "save_book"
    /\ ~HasRow(pre, call.book_id)
    /\ RowCount(books) = 2
    /\ ret.kind = "book"
    /\ ret.book[1].genres # call.book[1].genres
    /\ get_book_by_id(books, ret.book[1].id) = ret

(* C3: update_book(r) when no row has r.id returns None and leaves the     *)
(* table unchanged; a row for an id comes into existence only through      *)
(* create_book (directly or from save_book), never through update_book.    *)
C3_UpdateNeverInserts ==
    /\ (call.name = "update_book" /\ ~HasRow(pre, call.book_id))
           => (ret = RetNone /\ books = pre)
    /\ \A book_id \in BookIds :
           (HasRow(books, book_id) /\ ~HasRow(pre, book_id))
               => /\ call.name \in {"create_book", "save_book"}
                  /\ call.book_id = book_id

\* update_book called for an id without a row, on a table that has rows
C3_Witness ==
    /\ call.name = "update_book"
    /\ ~HasRow(pre, call.book_id)
    /\ pre # {}
    /\ ret.kind = "none"

(* C4: delete_book(id) on an id with no row returns False and leaves the   *)
(* table unchanged; on an id with a row it returns True and removes        *)
(* exactly that row; twice in a row on the same existing id it returns     *)
(* True then False.                                                        *)
C4_DeleteBook ==
    [][/\ call'.name = "delete_book" =>
            IF HasRow(books, call'.book_id)
            THEN /\ ret' = RetBool(TRUE)
                 /\ books' = OtherRows(books, call'.book_id)
                 /\ RowCount(books') = RowCount(books) - 1
            ELSE /\ ret' = RetBool(FALSE)
                 /\ books' = books
       /\ (/\ call.name = "delete_book"
           /\ HasRow(pre, call.book_id)
           /\ call'.name = "delete_book"
           /\ call'.book_id = call.book_id)
              => (ret = RetBool(TRUE) /\ ret' = RetBool(FALSE))]_vars

\* the second of two delete_book calls for an id, the other row still there
C4_Witness ==
    /\ call.name = "delete_book"
    /\ call.book_id \in deleted
    /\ ~HasRow(pre, call.book_id)
    /\ ret = RetBool(FALSE)
    /\ books # {}

----------------------------------------------------------------------------
(* Genres, as the contract describes them *)

\* the entries of g that are not blank, each trimmed, in their order
RECURSIVE TrimmedNonBlank(_)
TrimmedNonBlank(g) ==
    IF g = <<>> THEN <<>>
    ELSE IF \E i \in 1..Len(Head(g)) : Head(g)[i] \notin Whitespace
         THEN <<strip(Head(g))>> \o TrimmedNonBlank(Tail(g))
         ELSE TrimmedNonBlank(Tail(g))

\* where entry i of g starts in the join of all entries of g, less one
RECURSIVE Offset(_, _)
Offset(g, i) == IF i = 1 THEN 0 ELSE Offset(g, i - 1) + Len(g[i - 1]) + 1

\* s is every entry of g, as it is, with one comma between neighbours
IsJoinOfAllEntries(s, g) ==
    IF g = <<>> THEN s = <<>>
    ELSE /\ Len(s) = Offset(g, Len(g)) + Len(g[Len(g)])
         /\ \A i \in 1..Len(g) :
                /\ SubSeq(s, Offset(g, i) + 1, Offset(g, i) + Len(g[i])) = g[i]
                /\ i < Len(g) => s[Offset(g, i) + Len(g[i]) + 1] = ","

(* C5: encoding a genres list to the stored string and decoding it back    *)
(* yields exactly the non-blank entries of the list, each trimmed, in      *)
(* their order and number (an entry is never split or merged).             *)
C5_RoundTripKeepsEntries ==
    mpc = "done" => genres_list = TrimmedNonBlank(genres)

(* C6, as claimed: the stored string is the comma-join of only the         *)
(* non-empty entries; empty entries are not written.                       *)
C6_StoresOnlyNonEmptyEntries ==
    mpc \in {"db", "done"} => genres_str = join(",", nonempty_entries(genres))

(* C6, amended: the stored string is the comma-join of every entry of the  *)
(* list as it is (empty and blank entries included, nothing trimmed), and  *)
(* the empty string when the list is empty.                                *)
C6_StoresEveryEntry ==
    mpc \in {"db", "done"} => IsJoinOfAllEntries(genres_str, genres)

\* a list with an empty entry has been encoded: the entry left its comma
C6_Witness ==
    /\ mpc = "db"
    /\ genres = << <<"a">>, <<>> >>
    /\ genres_str = <<"a", ",">>

(* C7: no two rows of the table have the same id, and no operation changes *)
(* the id of a row: create/update/save lose no id and add at most the id   *)
(* they were called with, update adds none, delete removes only its own.   *)
C7_IdsUniqueAndImmutable ==
    /\ \A r1 \in books, r2 \in books : r1.id = r2.id => r1 = r2
    /\ call.name \in {"create_book", "save_book"}
           => (Ids(pre) \subseteq Ids(books)
               /\ Ids(books) \subseteq Ids(pre) \cup {call.book_id})
    /\ call.name \in {"update_book", "get_book_by_id", "get_all_books"}
           => Ids(books) = Ids(pre)
    /\ call.name = "delete_book"
           => (Ids(books) \subseteq Ids(pre)
               /\ Ids(pre) \ Ids(books) \subseteq {call.book_id})

\* a second row offered for a stored id, with other content, was refused
C7_Witness ==
    /\ call.name = "create_book"
    /\ HasRow(pre, call.book_id)
    /\ \A r \in RowsOf(pre, call.book_id) : ~RowHoldsBook(r, call.book[1])
    /\ ret = Raised
    /\ RowCount(books) = 2

C9_UpdateReplacesOneRow ==
    (call.name = "update_book" /\ ret.kind = "book") =>
        /\ HasRow(pre, call.book_id)
        /\ RowCount(RowsOf(books, call.book_id)) = 1
        /\ \A row \in RowsOf(books, call.book_id) : RowHoldsBook(row, call.book[1])
        /\ OtherRows(books, call.book_id) = OtherRows(pre, call.book_id)
        /\ get_book_by_id(books, call.book_id) = ret

\* an update that changed every scalar field and the genres, next to a row
\* of another book
C9_Witness ==
    /\ call.name = "update_book"
    /\ RowCount(books) = 2
    /\ \E old \in RowsOf(pre, call.book_id), new \in RowsOf(books, call.book_id) :
           /\ old.title # new.title
           /\ old.summary # new.summary
           /\ old.cover_image # new.cover_image
           /\ old.genres # new.genres

(* C10: create_book(r) for an id not yet stored persists exactly one new   *)
(* row keyed by r.id, leaves all other rows unchanged and returns the      *)
(* record read back from storage: r, with genres in decoded form.          *)
C10_CreatePersistsOneRow ==
    (call.name = "create_book" /\ ~HasRow(pre, call.book_id)) =>
        /\ pre \subseteq books
        /\ RowCount(books \ pre) = 1
        /\ \A row \in books \ pre :
               /\ RowHoldsBook(row, call.book[1])
               /\ ret.kind = "book"
               /\ ret.book[1] =
                      [call.book[1] EXCEPT !.genres = decode_genres(row.genres)]

\* create_book stored a second book, whose genres read back differently
C10_Witness ==
    /\ call.name = "create_book"
    /\ ~HasRow(pre, call.book_id)
    /\ RowCount(books) = 2
    /\ ret.kind = "book"
    /\ ret.book[1].genres # call.book[1].genres
    /\ ret.book[1].cover_image # None

----------------------------------------------------------------------------
\* row r read as a record: every column as it is, the genres decoded
RecordOfRow(r) ==
    [id               |-> r.id,
     title            |-> r.title,
     author           |-> r.author,
     year_published   |-> r.year_published,
     year_read        |-> r.year_read,
     cover_image_path |-> r.cover_image_path,
     summary          |-> r.summary,
     rating           |-> r.rating,
     genres           |-> strip_nonblank(split(r.genres, ",")),
     cover_image      |-> r.cover_image,
     is_remote_image  |-> r.is_remote_image]

(* C11: get_book_by_id(id) returns the mapped record when a row with that  *)
(* id exists and None otherwise; it never raises, whatever the state of    *)
(* the table.                                                              *)
C11_GetReturnsRecordOrNone ==
    call.name = "get_book_by_id" =>
        /\ ret.kind # "raised"
        /\ HasRow(pre, call.book_id)
               => (ret.kind = "book"
                   /\ \E r \in pre : r.id = call.book_id /\ ret.book[1] = RecordOfRow(r))
        /\ ~HasRow(pre, call.book_id) => ret = RetNone

(* C12: after any sequence of create/update/delete/save operations,        *)
(* get_all_books returns exactly one record per stored row, each the       *)
(* mapped row (none missing, none twice, none for a deleted row), and the  *)
(* empty sequence on an empty table.                                       *)
C12_GetAllReturnsEveryRowOnce ==
    call.name = "get_all_books" =>
        /\ ret.kind = "list"
        /\ Len(ret.book) = RowCount(pre)
        /\ {ret.book[i] : i \in 1..Len(ret.book)} = {RecordOfRow(r) : r \in pre}
        /\ \A i \in 1..Len(ret.book), j \in 1..Len(ret.book) :
               ret.book[i].id = ret.book[j].id => i = j
        /\ books = pre

\* what call c returns on table tbl when nothing has failed before it
ReturnsUndisturbed(c, tbl, result, after) ==
    CASE c.name = "create_book" ->
             (create_book(tbl, c.book[1]).ret.kind = result.kind
              /\ after = create_book(tbl, c.book[1]).books)
      [] c.name = "update_book" ->
             (update_book(tbl, c.book[1]).ret = result
              /\ after = update_book(tbl, c.book[1]).books)
      [] c.name = "save_book" ->
             (save_book(tbl, c.book[1]).ret = result
              /\ after = save_book(tbl, c.book[1]).books)
      [] c.name = "delete_book" ->
             (delete_book(tbl, c.book_id).ret = result
              /\ after = delete_book(tbl, c.book_id).books)
      [] c.name = "get_book_by_id" ->
             (get_book_by_id(tbl, c.book_id) = result /\ after = tbl)
      [] c.name = "get_all_books" ->
             (result \in {get_all_books(rows) : rows \in query_all(tbl)}
              /\ after = tbl)
      [] OTHER -> TRUE

(* C14: a storage failure is local to the call that produced it: the call  *)
(* that fails at commit leaves the table unchanged, and every later call   *)
(* on the same client returns what it would have returned had the failed   *)
(* call never been made.                                                   *)
C14_FailureIsLocal ==
    /\ ret.kind = "raised" => books = pre
    /\ ReturnsUndisturbed(call, pre, ret, books)

(* C17: every repository operation of the client runs on the one Session   *)
(* obtained in its constructor: no call opens, replaces or closes a        *)
(* Session, so the state a call leaves the Session in is the state the     *)
(* next call finds (a Session left inactive stays inactive and fails the   *)
(* next call).                                                             *)
C17_OneSessionForAllCalls ==
    [][/\ session'.id = session.id
       /\ session.state = "inactive"
              => (session'.state = "inactive" /\ ret' = Raised /\ books' = books)]_vars

\* a read on the Session that an earlier failed commit left inactive
C17_Witness ==
    /\ session = [id |-> 1, state |-> "inactive"]
    /\ call.name = "get_book_by_id"
    /\ HasRow(books, call.book_id)
    /\ ret = Raised

----------------------------------------------------------------------------
\* record b is the Dune of the example, with the given rating
IsDune(b, rating) ==
    /\ b.title = "Dune"
    /\ b.author = "Herbert"
    /\ b.rating = Some(rating)
    /\ b.genres = <<SciFi, Classic>>
    /\ b.id \in BookIds

(* C13: from an empty table, saving the new record Dune/Herbert/rating 5/  *)
(* genres [Sci-Fi, Classic] makes get_all_books return exactly one record  *)
(* with those fields and an id; saving it with rating 4 makes              *)
(* get_book_by_id return rating 4, genres unchanged, still one row;        *)
(* delete_book(id) then makes get_all_books return the empty sequence.     *)
C13_DuneScenario ==
    /\ step \in {1, 3} => (ret.kind = "book" /\ RowCount(books) = 1)
    /\ step = 2 => /\ ret.kind = "list"
                   /\ Len(ret.book) = 1
                   /\ IsDune(ret.book[1], 5)
    /\ step = 4 => /\ ret.kind = "book"
                   /\ IsDune(ret.book[1], 4)
                   /\ ret.book[1].id = call.book_id
                   /\ RowCount(books) = 1
    /\ step = 5 => (ret = RetBool(TRUE) /\ call.book_id \in deleted)
    /\ step = 6 => (ret = RetList(<<>>) /\ books = {})

\* the walk has reached its end: the list after the delete
C13_Witness ==
    /\ step = 6
    /\ call.name = "get_all_books"
    /\ deleted # {}
    /\ ret = RetList(<<>>)

(* C16: each facade call is atomic: no other call takes effect between    *)
(* save_book's existence check and its update/create (what the check saw   *)
(* still holds when the write is made), so save_book never returns None    *)
(* and never fails with a duplicate-key error.                             *)
C16_SaveBookIsAtomic ==
    /\ spc = "looked_up"
           => ((existing.kind = "book") <=> HasRow(books, saving[1].id))
    /\ call.name = "save_book" => ret.kind = "book"

----------------------------------------------------------------------------
\* record b is one that the form's validation lets through
WellFormed(b) ==
    /\ strip(b.title) # <<>>
    /\ strip(b.author) # <<>>
    /\ b.rating = None \/ b.rating[1] \in 1..5
    /\ b.year_published = None \/ b.year_published[1] \in 1450..2025
    /\ b.year_read = None \/ b.year_read[1] \in 1900..2025

(* C15: every record that handle_save_click passes on to save_book has a   *)
(* non-blank title and author, a rating absent or in 1..5, a               *)
(* year_published absent or in 1450..2025 and a year_read absent or in     *)
(* 1900..2025; a click on Save that validate_form rejects invokes no       *)
(* callback and leaves the table unchanged.                                *)
C15_MalformedInputIsRejected ==
    [][/\ call'.name = "save_book" => WellFormed(call'.book[1])
       /\ (clicks' = clicks + 1 /\ ~validate_form(fields').ok)
              => /\ books' = books
                 /\ call' = call
                 /\ todo' = <<>>
                 /\ log' = <<"snack_bar">>
                 /\ snack_bar' = validate_form(fields').message]_vars

\* a rating of 6 has been refused, with a book already in the table
C15_Witness ==
    /\ handler = "handle_save_click"
    /\ fields.rating = <<"6">>
    /\ snack_bar = "Rating must be between 1 and 5"
    /\ log = <<"snack_bar">>
    /\ books # {}
    /\ call.name = "save_book"

\* how often step x occurs in the sequence of steps l
RECURSIVE Occurrences(_, _)
Occurrences(l, x) ==
    IF l = <<>> THEN 0
    ELSE (IF Head(l) = x THEN 1 ELSE 0) + Occurrences(Tail(l), x)

(* C18: collect_form_data carries the id of book_to_edit when the form was *)
(* opened for editing and a freshly generated id otherwise; so a           *)
(* successful Save from an Edit form of a still-stored book leaves the row *)
(* count unchanged and changes only that book's row, and a successful Save *)
(* from an Add form adds exactly one row and changes no existing row.      *)
C18_EditKeepsIdAddGetsNewId ==
    /\ clicked.book # None =>
           IF clicked.book_to_edit # None
           THEN clicked.book[1].id = clicked.book_to_edit[1].id
           ELSE todo # <<>> => clicked.book[1].id \notin Ids(books) \cup deleted
    /\ (handler = "save_book_data" /\ ret.kind = "book") =>
           IF clicked.book_to_edit # None
           THEN HasRow(pre, clicked.book_to_edit[1].id) =>
                    /\ RowCount(books) = RowCount(pre)
                    /\ call.book_id = clicked.book_to_edit[1].id
                    /\ OtherRows(books, call.book_id) = OtherRows(pre, call.book_id)
                    /\ \A row \in RowsOf(books, call.book_id) :
                           RowHoldsBook(row, clicked.book[1])
           ELSE /\ RowCount(books) = RowCount(pre) + 1
                /\ pre \subseteq books
                /\ ~HasRow(pre, call.book_id)

\* a Save from an Edit form has changed the row of its book, next to the
\* row of another book
C18_Witness ==
    /\ handler = "save_book_data"
    /\ clicked.book_to_edit # None
    /\ RowCount(books) = 2
    /\ RowsOf(books, call.book_id) # RowsOf(pre, call.book_id)
    /\ ret.kind = "book"

(* C19: for one click on Save with input that passes validate_form and     *)
(* yields a record, handle_save_click closes the dialog before it invokes  *)
(* on_save_callback and invokes on_save_callback exactly once, with the    *)
(* collected record; if collect_form_data returns None the callback is not *)
(* invoked and an error message is shown instead.                          *)
C19_CloseThenCallbackOnce ==
    /\ \A i \in 1..Len(log) :
           log[i] = "on_save_callback" => \E j \in 1..(i - 1) : log[j] = "close_dialog"
    /\ clicked.book # None
           => /\ Occurrences(log \o todo, "on_save_callback") = 1
              /\ todo = <<>> => Occurrences(log, "on_save_callback") = 1
    /\ clicked.book = None => Occurrences(log \o todo, "on_save_callback") = 0
    /\ handler = "save_book_data"
           => /\ ~form.open
              /\ call.name = "save_book"
              /\ call.book = clicked.book
    /\ (handler = "handle_save_click" /\ validate_form(fields).ok
        /\ clicked.book = None)
           => /\ log = <<"snack_bar">>
              /\ snack_bar = "Error creating book. Please check your inputs."

\* a click on Save has run to its end: dialog closed, pause, callback, and
\* the record is stored
C19_Witness ==
    /\ handler = "save_book_data"
    /\ log = <<"close_dialog", "sleep", "on_save_callback">>
    /\ todo = <<>>
    /\ ~form.open
    /\ clicked.book_to_edit = None
    /\ RowCount(books) = 2

(* C20: a row is removed by the UI only when the user chose Delete in the  *)
(* confirmation dialog opened for that book; opening the dialog or         *)
(* choosing Cancel leaves the table unchanged, and a confirmed delete of a *)
(* book that no longer exists reports failure and leaves the table         *)
(* unchanged.                                                              *)
C20_DeleteOnlyAfterConfirmation ==
    [][/\ (call'.name = "delete_book" /\ <<call', ret', pre'>> # <<call, ret, pre>>)
              => /\ handler' = "confirm_delete"
                 /\ \E s \in PageSessions : confirm_dialog[s] = Some(call'.book_id)
       /\ books' \subseteq books /\ books' # books
              => /\ handler' = "confirm_delete"
                 /\ \E s \in PageSessions :
                        /\ confirm_dialog[s] # None
                        /\ books' = OtherRows(books, confirm_dialog[s][1])
       /\ handler' \in {"handle_delete_book", "close_dialog"}
              => (books' = books /\ call' = call)
       /\ (handler' = "confirm_delete" /\ ~HasRow(books, call'.book_id))
              => /\ ret' = RetBool(FALSE)
                 /\ snack_bar' = "Failed to delete book"
                 /\ books' = books]_vars

\* Delete was confirmed for a book that another confirmation had already
\* deleted: failure is reported, the other book is still there
C20_Witness ==
    /\ handler = "confirm_delete"
    /\ call.book_id \in deleted
    /\ ~HasRow(pre, call.book_id)
    /\ ret = RetBool(FALSE)
    /\ snack_bar = "Failed to delete book"
    /\ books # {}

----------------------------------------------------------------------------
\* text t ends in "..."
EndsInEllipsis(t) ==
    Len(t) >= 3 /\ SubSeq(t, Len(t) - 2, Len(t)) = ellipsis

(* C26: truncate_text(text, max_length) returns text unchanged when        *)
(* len(text) <= max_length, and otherwise a string that ends in "..." and  *)
(* is at most max_length long, for every text and every max_length >= 0.   *)
C26_TruncatedWithinMaxLength ==
    tpc = "done" =>
        IF Len(text) <= max_length
        THEN truncated = text
        ELSE EndsInEllipsis(truncated) /\ Len(truncated) <= max_length

----------------------------------------------------------------------------
(* C27: saving an edit through the book form changes only the fields the   *)
(* form shows: the stored row's cover_image and is_remote_image are the    *)
(* same after the save as they were before it.                             *)
C27_EditKeepsCoverImage ==
    (handler = "save_book_data" /\ clicked.book_to_edit # None /\ ret.kind = "book")
        => \A before \in RowsOf(pre, call.book_id), after \in RowsOf(books, call.book_id) :
               /\ after.cover_image = before.cover_image
               /\ after.is_remote_image = before.is_remote_image

----------------------------------------------------------------------------
\* the change to index i is one that handle_tab_change refuses
Restricted(i) ==
    /\ tab_number_after_authorization # None
    /\ ~is_authorized
    /\ i >= tab_number_after_authorization[1]

\* what is on the page after it was cleared and the handler of index i, if
\* there is one, was invoked: the tabs and what that handler put there
ShownBy(d, i) == IF i \in DOMAIN d THEN <<"tabs", d[i]>> ELSE <<"tabs">>
InvokedBy(d, i) == IF i \in DOMAIN d THEN <<d[i]>> ELSE <<>>

C23_RefusalResetsSelectedIndex ==
    [][(tab_call'.name = "handle_tab_change" /\ Restricted(tab_call'.index))
           => tabs'.selected_index = tabs.selected_index]_vars

\* dict e is dict d after the entry of index was dropped and the keys above
\* it were moved down by one
Rekeyed(d, e, index) ==
    /\ DOMAIN e = {j \in DOMAIN d : j < index}
                      \cup {j - 1 : j \in {k \in DOMAIN d : k > index}}
    /\ \A j \in DOMAIN d :
           /\ j < index => e[j] = d[j]
           /\ j > index => e[j - 1] = d[j]

\* every handler and every content is at the index of the tab it is for
Paired ==
    /\ \A j \in DOMAIN tab_handlers :
           j < Len(tabs.tabs) /\ tab_handlers[j] = HandlerOf(item(tabs.tabs, j))
    /\ \A j \in DOMAIN tab_contents :
           j < Len(tabs.tabs) /\ tab_contents[j] = item(tabs.tabs, j)

(* C24: remove_tab(i) with a valid i removes that tab and keeps every       *)
(* remaining tab paired with its own handler and content: the entries of    *)
(* tabs formerly at j > i are re-keyed to j-1, those at j < i keep their    *)
(* key, those of i are dropped.  With an out-of-range i nothing changes.    *)
C24_RemoveTabRekeys ==
    [][tab_call'.name = "remove_tab" =>
           LET i == tab_call'.index
           IN  IF 0 <= i /\ i < Len(tabs.tabs)
               THEN /\ tabs'.tabs = list_pop(tabs.tabs, i)
                    /\ Rekeyed(tab_handlers, tab_handlers', i)
                    /\ Rekeyed(tab_contents, tab_contents', i)
                    /\ Paired => Paired'
               ELSE UNCHANGED <<tabs, tab_handlers, tab_contents, page>>]_vars

\* the first of three tabs was removed; the two that remain have their
\* handlers and contents at indices 0 and 1
C24_Witness ==
    /\ tab_call = TabCall("remove_tab", 0)
    /\ Len(tabs.tabs) = 2
    /\ DOMAIN tab_handlers = {0, 1}
    /\ DOMAIN tab_contents = {0, 1}
    /\ Paired

(* C25: back_to_previous with a selected index above 0 selects index-1,     *)
(* invokes the handler of that tab and returns True; with selected index 0  *)
(* it returns False and changes neither the selected index nor the page.    *)
(* select_tab with an index outside the tab range changes nothing.          *)
C25_BackToPrevious ==
    [][/\ tab_call'.name = "back_to_previous" =>
              IF tabs.selected_index > 0
              THEN /\ tabs'.selected_index = tabs.selected_index - 1
                   /\ invoked' = InvokedBy(tab_handlers, tabs.selected_index - 1)
                   /\ page' = ShownBy(tab_handlers, tabs.selected_index - 1)
                   /\ tab_ret' = "True"
              ELSE /\ tab_ret' = "False"
                   /\ tabs.selected_index = 0 => (tabs' = tabs /\ page' = page)
       /\ (/\ tab_call'.name = "select_tab"
           /\ (tab_call'.index < 0 \/ tab_call'.index >= Len(tabs.tabs)))
              => /\ UNCHANGED <<tabs, tab_handlers, tab_contents, page>>
                 /\ invoked' = <<>>]_vars

\* back_to_previous went from the second tab to the first and invoked its
\* handler
C25_Witness ==
    /\ tab_call.name = "back_to_previous"
    /\ tab_ret = "True"
    /\ tabs.selected_index = 0
    /\ invoked = <<"create_main_tab">>

----------------------------------------------------------------------------
\* list l holds the record of every row of tbl, each once, and nothing else
ListsEveryRowOnce(l, tbl) ==
    /\ Len(l) = Cardinality(tbl)
    /\ {l[i] : i \in DOMAIN l} = {_convert_db_to_model(r) : r \in tbl}

(* C21: while the main tab is shown, after every successful save            *)
(* (save_book_data) and every confirmed successful delete the book grid on  *)
(* the page shows exactly the records that get_all_books returns at that    *)
(* moment: one card per stored book, no card for a deleted book.            *)
C21_GridShowsStoredBooks ==
    (/\ tabs.selected_index = 0
     /\ \/ handler = "save_book_data" /\ ret.kind = "book"
        \/ handler = "confirm_delete" /\ ret = RetBool(TRUE))
        => /\ ListsEveryRowOnce(BooksOfGrid(ShownGrid), books)
           /\ handler = "confirm_delete"
                  => \A i \in DOMAIN BooksOfGrid(ShownGrid) :
                         BooksOfGrid(ShownGrid)[i].id # call.book_id

\* a confirmed delete took one of two stored books: the grid holds one
\* card, for the book that is still stored
C21_Witness ==
    /\ tabs.selected_index = 0
    /\ handler = "confirm_delete"
    /\ ret = RetBool(TRUE)
    /\ Cardinality(pre) = 2
    /\ Len(BooksOfGrid(ShownGrid)) = 1
    /\ BooksOfGrid(ShownGrid)[1].id # call.book_id
    /\ Len(page) = 4

====
